---------------------------- MODULE Spec2Model ----------------------------
(***************************************************************************)
(* A model of the zkLocus proof-composition engine: the in-circuit         *)
(* point-in-triangle predicate over signed fixed-point integers, the       *)
(* AND / OR combiners of point-in-polygon proofs, and the inside/outside   *)
(* rollup (fromCoordinatesInPolygonProof, combine).                        *)
(*                                                                         *)
(* A circuit method either satisfies all its assertions and yields a       *)
(* proof carrying a public output, or fails an assertion and yields no     *)
(* proof.  A method's result is therefore a sequence of length at most     *)
(* one: <<>> when an assertion fails, <<output>> otherwise.                *)
(***************************************************************************)
EXTENDS Integers, Sequences, FiniteSets

VARIABLES
    geoPc,        \* SpecGeometry: "input" before the predicate ran, "done" after
    geoPoint,     \* SpecGeometry: the NoncedGeographicalPoint given to the circuit
    geoPolygon,   \* SpecGeometry: the ThreePointPolygon given to the circuit
    geoInside,    \* SpecGeometry: the Bool returned by isPointIn3PointPolygon
    cmbPc,        \* SpecCombiners: "input" before a combiner ran, "done" after
    cmbOp,        \* SpecCombiners: the combiner that ran, "AND" or "OR"
    cmbProof1,    \* SpecCombiners: public output of the first input proof
    cmbProof2,    \* SpecCombiners: public output of the second input proof
    cmbOut,       \* SpecCombiners: the combiner's result, <<>> or <<output>>
    rollPc,       \* SpecRollup: "input" before a rollup method ran, "done" after
    rollOp,       \* SpecRollup: the method that ran, "lift" or "combine"
    rollProof,    \* SpecRollup: <<output>> of the proof given to the lift, or <<>>
    rollAcc1,     \* SpecRollup: <<output>> of the first accumulator proof, or <<>>
    rollAcc2,     \* SpecRollup: <<output>> of the second accumulator proof, or <<>>
    rollOut,      \* SpecRollup: the method's result, <<>> or <<output>>
    valPc,        \* SpecValidation: "input" before a method ran, "done" after
    valOp,        \* SpecValidation: the method that ran
    valPoint,     \* SpecValidation: the NoncedGeographicalPoint given
    valPolygon,   \* SpecValidation: the ThreePointPolygon given, or <<>>
    valOut,       \* SpecValidation: the method's result, <<>> or <<output>>
    integrationOracleProof,          \* SpecDriver: the driver's field of that name
    exactGeolocationMetadataProof,   \* SpecDriver: the driver's field of that name
    insidePolygonProofs,             \* SpecDriver: inPolygonProof.insidePolygonProofs
    outsidePolygonProofs,            \* SpecDriver: inPolygonProof.outsidePolygonProofs
    allProfs,                        \* SpecDriver: the driver's field of that name
    drvPending,   \* SpecDriver: the calls suspended at an await, oldest first
    drvLast,      \* SpecDriver: the call that settled last
    drvInvoked    \* SpecDriver: how many inPolygon invocations there have been

geoVars == <<geoPc, geoPoint, geoPolygon, geoInside>>

cmbVars == <<cmbPc, cmbOp, cmbProof1, cmbProof2, cmbOut>>

rollVars == <<rollPc, rollOp, rollProof, rollAcc1, rollAcc2, rollOut>>

valVars == <<valPc, valOp, valPoint, valPolygon, valOut>>

drvVars ==
    <<integrationOracleProof, exactGeolocationMetadataProof, insidePolygonProofs,
      outsidePolygonProofs, allProfs, drvPending, drvLast, drvInvoked>>

vars == <<geoVars, cmbVars, rollVars, valVars, drvVars>>

(***************************************************************************)
(* Bounds of the model.                                                    *)
(***************************************************************************)
\* Scaled coordinates range over -1 .. MaxCoord.
MaxCoord == 2

\* How many combiner applications deep the input proofs of a combiner, and
\* the input accumulators of combine, may be nested.
MaxNesting == 1

Coords == (-1) .. MaxCoord

(***************************************************************************)
(* o1js Int64: a signed integer kept as magnitude and sign.  The model's   *)
(* coordinates are far below 2^64, so no range check of add, sub or mul    *)
(* can fail and the operations are the exact integer ones.                 *)
(***************************************************************************)
Abs(n) == IF n < 0 THEN 0 - n ELSE n

Sgn(n) == IF n < 0 THEN -1 ELSE 1

Int64Sub(x, y) == x - y

Int64Add(x, y) == x + y

Int64Mul(x, y) == x * y

\* Int64.div divides the magnitudes (UInt64.divMod, rounding down) and
\* multiplies the signs: the quotient is truncated toward zero.
Int64Div(x, y) == Sgn(x) * Sgn(y) * (Abs(x) \div Abs(y))

(***************************************************************************)
(* Int64Prover (./math/Provers.js): the comparisons of two Int64 as signed *)
(* integers.                                                               *)
(***************************************************************************)
provableIsInt64XGreaterThanY(x, y) == x > y

provableIsInt64XLessThanY(x, y) == x < y

provableIsInt64XLessThanOrEqualY(x, y) == x <= y

provableIsInt64XEqualToZero(x) == x = 0

(***************************************************************************)
(* Data structures.                                                        *)
(***************************************************************************)
GeographicalPoint(lat, lon, f) ==
    [latitude |-> lat, longitude |-> lon, factor |-> f]

NoncedGeographicalPoint(p, n) == [point |-> p, nonce |-> n]

ThreePointPolygon(a, b, c) == [vertice1 |-> a, vertice2 |-> b, vertice3 |-> c]

(***************************************************************************)
(* Argument validation.  An assertion that fails leaves the method without *)
(* an output; UInt64.divMod has no quotient for a zero divisor, so a zero  *)
(* factor fails the first assertion.                                       *)
(***************************************************************************)
MaxLatitudeMagnitude == 90

MaxLongitudeMagnitude == 180

MaxFactorMagnitude == 10000000

\* GeographicalPoint.assertIsValid: the latitude is divided by the factor
\* (truncating) before it is compared, the longitude is compared as it is
\* stored, and the factor is bounded by its magnitude.
GeographicalPointAssertIsValid(p) ==
    /\ p.factor # 0
    /\ Abs(Int64Div(p.latitude, p.factor)) <= MaxLatitudeMagnitude
    /\ Abs(p.longitude) <= MaxLongitudeMagnitude
    /\ Abs(p.factor) <= MaxFactorMagnitude

NoncedGeographicalPointAssertIsValid(np) == GeographicalPointAssertIsValid(np.point)

\* verifyProoveCoordinatesIn3dPolygonArguments: <<>> when an assertion
\* fails, otherwise the validated point and polygon.
verifyProoveCoordinatesIn3dPolygonArguments(point, polygon) ==
    IF /\ NoncedGeographicalPointAssertIsValid(point)
       /\ GeographicalPointAssertIsValid(polygon.vertice1)
       /\ GeographicalPointAssertIsValid(polygon.vertice2)
       /\ GeographicalPointAssertIsValid(polygon.vertice3)
       /\ point.point.factor = polygon.vertice1.factor
       /\ point.point.factor = polygon.vertice2.factor
       /\ point.point.factor = polygon.vertice3.factor
    THEN <<[point |-> point.point, polygon |-> polygon]>>
    ELSE <<>>

\* ZKCoordinate: the constructor throws for a factor above MAX_FACTOR.
MAX_FACTOR == 10000000

ZKCoordinateAcceptsFactor(factor) == ~(factor > MAX_FACTOR)

(***************************************************************************)
(* isPointOnEdgeProvable: the point lies in the bounding box of the edge   *)
(* and satisfies the line equation of the edge.                            *)
(***************************************************************************)
isPointOnEdgeProvable(point, vertice1, vertice2) ==
    LET x  == point.point.latitude
        y  == point.point.longitude
        x1 == vertice1.latitude
        y1 == vertice1.longitude
        x2 == vertice2.latitude
        y2 == vertice2.longitude
        isX1LargerThanX2 == provableIsInt64XGreaterThanY(x1, x2)
        maximumX == IF isX1LargerThanX2 THEN x1 ELSE x2
        minimumX == IF isX1LargerThanX2 THEN x2 ELSE x1
        isY1LargerThanY2 == provableIsInt64XGreaterThanY(y1, y2)
        maximumY == IF isY1LargerThanY2 THEN y1 ELSE y2
        minimumY == IF isY1LargerThanY2 THEN y2 ELSE y1
        withinXBounds == /\ provableIsInt64XLessThanOrEqualY(x, maximumX)
                         /\ provableIsInt64XLessThanOrEqualY(minimumX, x)
        withinYBounds == /\ provableIsInt64XLessThanOrEqualY(y, maximumY)
                         /\ provableIsInt64XLessThanOrEqualY(minimumY, y)
        xDifference1 == Int64Sub(x2, x1)
        xDifference2 == Int64Sub(x, x1)
        yDiffernce1  == Int64Sub(y2, y1)
        yDiffernce2  == Int64Sub(y, y1)
        firstProduct  == Int64Mul(xDifference1, yDiffernce2)
        secondProduct == Int64Mul(xDifference2, yDiffernce1)
        onLine == firstProduct = secondProduct
    IN  withinXBounds /\ withinYBounds /\ onLine

(***************************************************************************)
(* One iteration of the ray-casting loop of isPointIn3PointPolygon, for    *)
(* the edge from vertices[j] to vertices[i].                               *)
(***************************************************************************)
\* The denominator as it is subtracted, without the horizontal-edge case.
edgeDenominatorAsSubtracted(vi, vj) == Int64Sub(vj.longitude, vi.longitude)

\* The denominator the division is performed with.
edgeDenominator(vi, vj) ==
    LET denominator == Int64Sub(vj.longitude, vi.longitude)
        isHorizontalEdge == provableIsInt64XEqualToZero(denominator)
    IN  IF isHorizontalEdge THEN 1 ELSE denominator

\* isIntersect: whether the iteration toggles the accumulator.
isIntersect(point, vi, vj) ==
    LET x  == point.point.latitude
        y  == point.point.longitude
        xi == vi.latitude
        yi == vi.longitude
        xj == vj.latitude
        yj == vj.longitude
        condition1 == provableIsInt64XGreaterThanY(yi, y)
        condition2 == provableIsInt64XGreaterThanY(yj, y)
        jointCondition1 == ~(condition1 = condition2)
        leftOperand  == Int64Sub(xj, xi)
        rightOperand == Int64Sub(y, yi)
        numerator == Int64Mul(leftOperand, rightOperand)
        isHorizontalEdge == provableIsInt64XEqualToZero(Int64Sub(yj, yi))
        result_before_addition == Int64Div(numerator, edgeDenominator(vi, vj))
        result == Int64Add(result_before_addition, xi)
        jointCondition2 == IF isHorizontalEdge
                           THEN FALSE
                           ELSE provableIsInt64XLessThanY(x, result)
    IN  jointCondition1 /\ jointCondition2

rayCastStep(inside, point, vi, vj) ==
    IF isIntersect(point, vi, vj) THEN ~inside ELSE inside

\* The loop: (i, j) = (0, 2), (1, 0), (2, 1) over [vertice1, vertice2, vertice3].
rayCast(point, polygon) ==
    LET inside0 == FALSE
        inside1 == rayCastStep(inside0, point, polygon.vertice1, polygon.vertice3)
        inside2 == rayCastStep(inside1, point, polygon.vertice2, polygon.vertice1)
        inside3 == rayCastStep(inside2, point, polygon.vertice3, polygon.vertice2)
    IN  inside3

isPointLocatedOnEdge(point, polygon) ==
    LET isPointOnEdge1 == isPointOnEdgeProvable(point, polygon.vertice1, polygon.vertice2)
        isPointOnEdge2 == isPointOnEdgeProvable(point, polygon.vertice2, polygon.vertice3)
        isPointOnEdge3 == isPointOnEdgeProvable(point, polygon.vertice3, polygon.vertice1)
    IN  isPointOnEdge1 \/ isPointOnEdge2 \/ isPointOnEdge3

isPointIn3PointPolygonRayCastOnly(point, polygon) == rayCast(point, polygon)

\* The ray-casting result, overridden by TRUE when the point is on an edge.
isPointIn3PointPolygon(point, polygon) ==
    IF isPointLocatedOnEdge(point, polygon) THEN TRUE ELSE rayCast(point, polygon)

(***************************************************************************)
(* Field elements and Poseidon.  Poseidon is modelled as an ideal hash:    *)
(* injective in the sequence of its inputs and never equal to a literal    *)
(* field element.  A field element is a sequence of integers: the literal  *)
(* n is <<0, n>> (a negative n stands for the field's p - |n|, which is    *)
(* what Int64.toField gives), and the hash of inputs a, b, ... is          *)
(* <<1>> \o a \o b \o ... \o <<2>>, a code from which the inputs can be    *)
(* read back.                                                              *)
(***************************************************************************)
Field(n) == <<0, n>>

RECURSIVE Flatten(_)
Flatten(inputs) ==
    IF inputs = <<>> THEN <<>> ELSE Head(inputs) \o Flatten(Tail(inputs))

PoseidonHash(inputs) == <<1>> \o Flatten(inputs) \o <<2>>

Int64ToField(x) == Field(x)

\* GeographicalPoint.hash
GeographicalPointHash(p) ==
    PoseidonHash(<<Int64ToField(p.latitude), Int64ToField(p.longitude),
                   Int64ToField(p.factor)>>)

\* NoncedGeographicalPoint.hash
NoncedGeographicalPointHash(np) ==
    PoseidonHash(<<GeographicalPointHash(np.point), Field(np.nonce)>>)

\* ThreePointPolygon.hash
ThreePointPolygonHash(t) ==
    PoseidonHash(<<GeographicalPointHash(t.vertice1), GeographicalPointHash(t.vertice2),
                   GeographicalPointHash(t.vertice3)>>)

CoordinateProofState(polygonCommitment, coordinatesCommitment, isInPolygon) ==
    [polygonCommitment |-> polygonCommitment,
     coordinatesCommitment |-> coordinatesCommitment,
     isInPolygon |-> isInPolygon]

CoordinatePolygonInclusionExclusionProof(inside, outside, coordinatesCommitment) ==
    [insidePolygonCommitment |-> inside,
     outsidePolygonCommitment |-> outside,
     coordinatesCommitment |-> coordinatesCommitment]

(***************************************************************************)
(* CoordinatesInPolygon: proveCoordinatesIn3PointPolygon, AND, OR.  The    *)
(* proof arguments of AND and OR are the public outputs of verified proofs *)
(* of this program.                                                        *)
(***************************************************************************)
\* The method calls no argument validation and asserts nothing: it yields
\* a proof for every point and polygon.
proveCoordinatesIn3PointPolygon(point, polygon) ==
    <<CoordinateProofState(ThreePointPolygonHash(polygon),
                           NoncedGeographicalPointHash(point),
                           isPointIn3PointPolygon(point, polygon))>>

\* The assertions of AND: same coordinates, different polygons.  The bit of
\* proof2 is not constrained.
ANDAssertionsNoPolygonCheck(proof1, proof2) ==
    proof1.coordinatesCommitment = proof2.coordinatesCommitment

ANDAssertions(proof1, proof2) ==
    /\ proof1.coordinatesCommitment = proof2.coordinatesCommitment
    /\ proof1.polygonCommitment # proof2.polygonCommitment

ANDOutputSwapped(proof1, proof2) ==
    CoordinateProofState(
        PoseidonHash(<<proof2.polygonCommitment, proof1.polygonCommitment>>),
        proof1.coordinatesCommitment,
        proof1.isInPolygon)

ANDOutput(proof1, proof2) ==
    LET expectedSecondProofIsInPolygon == IF proof1.isInPolygon THEN TRUE ELSE FALSE
    IN  CoordinateProofState(
            PoseidonHash(<<proof1.polygonCommitment, proof2.polygonCommitment>>),
            proof1.coordinatesCommitment,
            expectedSecondProofIsInPolygon)

AND(proof1, proof2) ==
    IF ANDAssertions(proof1, proof2) THEN <<ANDOutput(proof1, proof2)>> ELSE <<>>

ORAssertions(proof1, proof2) ==
    /\ proof1.coordinatesCommitment = proof2.coordinatesCommitment
    /\ proof1.polygonCommitment # proof2.polygonCommitment

OROutputFirstBit(proof1, proof2) ==
    CoordinateProofState(
        PoseidonHash(<<proof1.polygonCommitment, proof2.polygonCommitment>>),
        proof1.coordinatesCommitment,
        proof1.isInPolygon)

OROutput(proof1, proof2) ==
    LET isInPolygon == IF proof1.isInPolygon \/ proof2.isInPolygon THEN TRUE ELSE FALSE
    IN  CoordinateProofState(
            PoseidonHash(<<proof1.polygonCommitment, proof2.polygonCommitment>>),
            proof1.coordinatesCommitment,
            isInPolygon)

OR(proof1, proof2) ==
    IF ORAssertions(proof1, proof2) THEN <<OROutput(proof1, proof2)>> ELSE <<>>

(***************************************************************************)
(* CoordinatesInOrOutOfPolygon: fromCoordinatesInPolygonProof, combine.    *)
(***************************************************************************)
fromCoordinatesInPolygonProofSidesSwapped(proof) ==
    <<CoordinatePolygonInclusionExclusionProof(
        IF proof.isInPolygon THEN Field(0) ELSE proof.polygonCommitment,
        IF proof.isInPolygon THEN proof.polygonCommitment ELSE Field(0),
        proof.coordinatesCommitment)>>

fromCoordinatesInPolygonProof(proof) ==
    LET insideCommitment ==
            IF proof.isInPolygon THEN proof.polygonCommitment ELSE Field(0)
        outsideCommitment ==
            IF proof.isInPolygon THEN Field(0) ELSE proof.polygonCommitment
    IN  <<CoordinatePolygonInclusionExclusionProof(
            insideCommitment, outsideCommitment, proof.coordinatesCommitment)>>

combineAssertionsEitherSide(proof1, proof2) ==
    /\ proof1.coordinatesCommitment = proof2.coordinatesCommitment
    /\ ~(\/ proof1.insidePolygonCommitment = proof2.insidePolygonCommitment
         \/ proof1.outsidePolygonCommitment = proof2.outsidePolygonCommitment)

\* The assertions of combine: same coordinates, and not both sides equal.
combineAssertions(proof1, proof2) ==
    LET isInsidePolygonCommitmentEqual ==
            proof1.insidePolygonCommitment = proof2.insidePolygonCommitment
        isOutsidePolygonCommitmentEqual ==
            proof1.outsidePolygonCommitment = proof2.outsidePolygonCommitment
    IN  /\ proof1.coordinatesCommitment = proof2.coordinatesCommitment
        /\ (isInsidePolygonCommitmentEqual /\ isOutsidePolygonCommitmentEqual) = FALSE

\* The commitments combine computes, assignment by assignment.
combineOutput(proof1, proof2) ==
    LET isInsideCommitmentPresentInProof1 ==
            IF proof1.insidePolygonCommitment = Field(0) THEN FALSE ELSE TRUE
        isInsideCommitmentPresentInProof2 ==
            IF proof2.insidePolygonCommitment = Field(0) THEN FALSE ELSE TRUE
        isOutsideCommitmentPresentInProof1 ==
            IF proof1.outsidePolygonCommitment = Field(0) THEN FALSE ELSE TRUE
        isOutsideCommitmentPresentInProof2 ==
            IF proof2.outsidePolygonCommitment = Field(0) THEN FALSE ELSE TRUE
        newInsideCommitmentBothPresent ==
            PoseidonHash(<<proof1.insidePolygonCommitment, proof2.insidePolygonCommitment>>)
        \* let newInsideCommitment, then its two reassignments
        newInsideCommitment1 ==
            IF isInsideCommitmentPresentInProof1 /\ ~isInsideCommitmentPresentInProof2
            THEN proof1.insidePolygonCommitment
            ELSE newInsideCommitmentBothPresent
        newInsideCommitment2 ==
            IF ~isInsideCommitmentPresentInProof1 /\ isInsideCommitmentPresentInProof2
            THEN proof2.insidePolygonCommitment
            ELSE newInsideCommitment1
        newInsideCommitment3 ==
            IF ~isInsideCommitmentPresentInProof1 /\ ~isInsideCommitmentPresentInProof2
            THEN Field(0)
            ELSE newInsideCommitment2
        newOutsideCommitmentBothPresent ==
            PoseidonHash(<<proof1.outsidePolygonCommitment, proof2.outsidePolygonCommitment>>)
        \* let newOutsideCommitment, then its reassignment, which tests the
        \* presence of proof2's INSIDE commitment
        newOutsideCommitment1 ==
            IF isOutsideCommitmentPresentInProof1 /\ ~isOutsideCommitmentPresentInProof2
            THEN proof1.outsidePolygonCommitment
            ELSE newOutsideCommitmentBothPresent
        newOutsideCommitment2 ==
            IF ~isOutsideCommitmentPresentInProof1 /\ isInsideCommitmentPresentInProof2
            THEN proof2.outsidePolygonCommitment
            ELSE newOutsideCommitment1
        \* the last assignment is to newInsideCommitment, from newOutsideCommitment:
        \* newInsideCommitment3 is overwritten
        newInsideCommitment4 ==
            IF ~isInsideCommitmentPresentInProof1 /\ ~isInsideCommitmentPresentInProof2
            THEN Field(0)
            ELSE newOutsideCommitment2
    IN  CoordinatePolygonInclusionExclusionProof(
            newInsideCommitment4, newOutsideCommitment2, proof1.coordinatesCommitment)

combine(proof1, proof2) ==
    IF combineAssertions(proof1, proof2) THEN <<combineOutput(proof1, proof2)>> ELSE <<>>

(***************************************************************************)
(* Each specification drives one group of variables and leaves the other   *)
(* groups idle.                                                            *)
(***************************************************************************)
GeoIdle ==
    /\ geoPc = "idle"
    /\ geoPoint = <<>>
    /\ geoPolygon = <<>>
    /\ geoInside = FALSE

CmbIdle ==
    /\ cmbPc = "idle"
    /\ cmbOp = "none"
    /\ cmbProof1 = <<>>
    /\ cmbProof2 = <<>>
    /\ cmbOut = <<>>

RollIdle ==
    /\ rollPc = "idle"
    /\ rollOp = "none"
    /\ rollProof = <<>>
    /\ rollAcc1 = <<>>
    /\ rollAcc2 = <<>>
    /\ rollOut = <<>>

ValIdle ==
    /\ valPc = "idle"
    /\ valOp = "none"
    /\ valPoint = <<>>
    /\ valPolygon = <<>>
    /\ valOut = <<>>

\* The values of an optional field of the driver: undefined, null, or an
\* object.
Undefined == <<"undefined">>

Null == <<"null">>

Object(v) == <<"object", v>>

\* A call of a method of Prove.  Its argument and what it returns are kept
\* with the method's name, and the provider proof it captured before its
\* await is <<>> or <<the proof>>.
\* No call has settled yet.
NoCall ==
    [op |-> "none", arg |-> <<>>, status |-> "none", at |-> "none",
     todo |-> <<>>, got |-> <<>>, captured |-> <<>>, stamp |-> 0,
     awaited |-> FALSE, mutated |-> FALSE, result |-> <<>>]

\* The driver as its constructor leaves it, with no call made.
DrvIdle ==
    /\ integrationOracleProof = Undefined
    /\ exactGeolocationMetadataProof = Undefined
    /\ insidePolygonProofs = <<>>
    /\ outsidePolygonProofs = <<>>
    /\ allProfs = <<>>
    /\ drvPending = <<>>
    /\ drvLast = NoCall
    /\ drvInvoked = 0

(***************************************************************************)
(* SpecGeometry: the predicate applied to every point and triangle of the  *)
(* grid, all of one factor.                                                *)
(***************************************************************************)
GridPoints == { GeographicalPoint(lat, lon, 1) : lat \in Coords, lon \in Coords }

GridTriangles ==
    { ThreePointPolygon(a, b, c) : a \in GridPoints, b \in GridPoints, c \in GridPoints }

GeoInit ==
    /\ geoPc = "input"
    /\ geoPoint \in { NoncedGeographicalPoint(p, 1) : p \in GridPoints }
    /\ geoPolygon \in GridTriangles
    /\ geoInside = FALSE
    /\ CmbIdle
    /\ RollIdle
    /\ ValIdle
    /\ DrvIdle

RunIsPointIn3PointPolygon ==
    /\ geoPc = "input"
    /\ geoPc' = "done"
    /\ geoInside' = isPointIn3PointPolygon(geoPoint, geoPolygon)
    /\ UNCHANGED <<geoPoint, geoPolygon, cmbVars, rollVars, valVars, drvVars>>

GeoNext == RunIsPointIn3PointPolygon

SpecGeometry == GeoInit /\ [][GeoNext]_vars

(***************************************************************************)
(* The proofs the combiners are applied to: proofs of                      *)
(* proveCoordinatesIn3PointPolygon for two query points and four           *)
(* triangles, and the AND / OR combinations of those, nested up to         *)
(* MaxNesting deep.  The point (0,0) is inside the first two triangles and *)
(* outside the last two; the point (1,1) is inside the second and third.   *)
(***************************************************************************)
AlgPoints ==
    { NoncedGeographicalPoint(GeographicalPoint(0, 0, 1), 1),
      NoncedGeographicalPoint(GeographicalPoint(1, 1, 1), 2) }

AlgPolygons ==
    { ThreePointPolygon(GeographicalPoint(-1, -1, 1), GeographicalPoint(-1, 2, 1),
                        GeographicalPoint(2, -1, 1)),
      ThreePointPolygon(GeographicalPoint(0, 0, 1), GeographicalPoint(2, 0, 1),
                        GeographicalPoint(0, 2, 1)),
      ThreePointPolygon(GeographicalPoint(1, 1, 1), GeographicalPoint(2, 1, 1),
                        GeographicalPoint(1, 2, 1)),
      ThreePointPolygon(GeographicalPoint(1, 2, 1), GeographicalPoint(2, 2, 1),
                        GeographicalPoint(2, 1, 1)) }

BaseProofs ==
    UNION { { r[1] : r \in { proveCoordinatesIn3PointPolygon(pt, poly) } \ { <<>> } }
            : pt \in AlgPoints, poly \in AlgPolygons }

\* The outputs of the proofs that AND and OR yield on pairs of `proofs'.
CombinedProofs(proofs) ==
    { r[1] : r \in ({ AND(a, b) : a \in proofs, b \in proofs }
                      \cup { OR(a, b) : a \in proofs, b \in proofs }) \ { <<>> } }

RECURSIVE ProofsUpTo(_)
ProofsUpTo(n) ==
    IF n = 0
    THEN BaseProofs
    ELSE LET prev == ProofsUpTo(n - 1) IN prev \cup CombinedProofs(prev)

Proofs == ProofsUpTo(MaxNesting)

(***************************************************************************)
(* SpecCombiners: AND or OR applied to every pair of those proofs.         *)
(***************************************************************************)
CmbInit ==
    /\ cmbPc = "input"
    /\ cmbOp = "none"
    /\ cmbProof1 \in Proofs
    /\ cmbProof2 \in Proofs
    /\ cmbOut = <<>>
    /\ GeoIdle
    /\ RollIdle
    /\ ValIdle
    /\ DrvIdle

RunAND ==
    /\ cmbPc = "input"
    /\ cmbPc' = "done"
    /\ cmbOp' = "AND"
    /\ cmbOut' = AND(cmbProof1, cmbProof2)
    /\ UNCHANGED <<cmbProof1, cmbProof2, geoVars, rollVars, valVars, drvVars>>

RunOR ==
    /\ cmbPc = "input"
    /\ cmbPc' = "done"
    /\ cmbOp' = "OR"
    /\ cmbOut' = OR(cmbProof1, cmbProof2)
    /\ UNCHANGED <<cmbProof1, cmbProof2, geoVars, rollVars, valVars, drvVars>>

CmbNext == RunAND \/ RunOR

SpecCombiners == CmbInit /\ [][CmbNext]_vars

(***************************************************************************)
(* SpecRollup: fromCoordinatesInPolygonProof applied to every one of those *)
(* proofs, and combine applied to every pair of accumulators: the lifts of *)
(* the proveCoordinatesIn3PointPolygon proofs and the combinations of      *)
(* those, nested up to MaxNesting deep.                                    *)
(***************************************************************************)
BaseAccumulators ==
    { r[1] : r \in { fromCoordinatesInPolygonProof(p) : p \in BaseProofs } \ { <<>> } }

CombinedAccumulators(accs) ==
    { r[1] : r \in { combine(a, b) : a \in accs, b \in accs } \ { <<>> } }

RECURSIVE AccumulatorsUpTo(_)
AccumulatorsUpTo(n) ==
    IF n = 0
    THEN BaseAccumulators
    ELSE LET prev == AccumulatorsUpTo(n - 1) IN prev \cup CombinedAccumulators(prev)

Accumulators == AccumulatorsUpTo(MaxNesting)

RollInit ==
    /\ rollPc = "input"
    /\ rollOp = "none"
    /\ rollOut = <<>>
    /\ \/ /\ rollProof \in { <<p>> : p \in Proofs }
          /\ rollAcc1 = <<>>
          /\ rollAcc2 = <<>>
       \/ /\ rollProof = <<>>
          /\ rollAcc1 \in { <<a>> : a \in Accumulators }
          /\ rollAcc2 \in { <<a>> : a \in Accumulators }
    /\ GeoIdle
    /\ CmbIdle
    /\ ValIdle
    /\ DrvIdle

RunFromCoordinatesInPolygonProof ==
    /\ rollPc = "input"
    /\ rollProof # <<>>
    /\ rollPc' = "done"
    /\ rollOp' = "lift"
    /\ rollOut' = fromCoordinatesInPolygonProof(rollProof[1])
    /\ UNCHANGED <<rollProof, rollAcc1, rollAcc2, geoVars, cmbVars, valVars, drvVars>>

RunCombine ==
    /\ rollPc = "input"
    /\ rollAcc1 # <<>>
    /\ rollAcc2 # <<>>
    /\ rollPc' = "done"
    /\ rollOp' = "combine"
    /\ rollOut' = combine(rollAcc1[1], rollAcc2[1])
    /\ UNCHANGED <<rollProof, rollAcc1, rollAcc2, geoVars, cmbVars, valVars, drvVars>>

RollNext == RunFromCoordinatesInPolygonProof \/ RunCombine

SpecRollup == RollInit /\ [][RollNext]_vars

(***************************************************************************)
(* SpecValidation: assertIsValid applied to points at the edges of the     *)
(* coordinate domain, and verifyProoveCoordinatesIn3dPolygonArguments and  *)
(* proveCoordinatesIn3PointPolygon applied to the same points and          *)
(* triangles, some of them off the domain or of mixed factors.             *)
(***************************************************************************)
\* Stored factors: zero, the scales of 0, 1 and 7 decimals, and the scale of
\* 8 decimals.
ValFactors == { 0, 1, 10, MaxFactorMagnitude, 10 * MaxFactorMagnitude }

ValLatitudes == { -91, -90, 0, 90, 91, 900, 905, 910, 900000000, 900000001 }

ValLongitudes == { -181, -180, 0, 180, 181, 1800, 1801, 1800000000 }

ValPoints ==
    { NoncedGeographicalPoint(GeographicalPoint(lat, lon, f), 1) :
          lat \in ValLatitudes, lon \in ValLongitudes, f \in ValFactors }

\* Vertices for the two methods over a point and a triangle: in the domain
\* at factor 1, of another factor, and off the domain.
ValVertices ==
    { GeographicalPoint(0, 0, 1), GeographicalPoint(2, 0, 1), GeographicalPoint(0, 2, 1),
      GeographicalPoint(0, 2, 10), GeographicalPoint(91, 0, 1), GeographicalPoint(0, 181, 1) }

ValTriangles ==
    { ThreePointPolygon(a, b, c) : a \in ValVertices, b \in ValVertices, c \in ValVertices }

ValInit ==
    /\ valPc = "input"
    /\ valOut = <<>>
    /\ \/ /\ valOp = "assertIsValid"
          /\ valPoint \in ValPoints
          /\ valPolygon = ThreePointPolygon(GeographicalPoint(0, 0, 1),
                                           GeographicalPoint(2, 0, 1),
                                           GeographicalPoint(0, 2, 1))
       \/ /\ valOp \in { "verifyProoveCoordinatesIn3dPolygonArguments",
                         "proveCoordinatesIn3PointPolygon" }
          /\ valPoint \in { NoncedGeographicalPoint(p, 1) : p \in ValVertices }
          /\ valPolygon \in ValTriangles
    /\ GeoIdle
    /\ CmbIdle
    /\ RollIdle
    /\ DrvIdle

\* NoncedGeographicalPoint.assertIsValid: <<>> when an assertion fails.
RunAssertIsValid ==
    /\ valPc = "input"
    /\ valOp = "assertIsValid"
    /\ valPc' = "done"
    /\ valOut' = IF NoncedGeographicalPointAssertIsValid(valPoint)
                 THEN <<valPoint>>
                 ELSE <<>>
    /\ UNCHANGED <<valOp, valPoint, valPolygon, geoVars, cmbVars, rollVars, drvVars>>

RunVerifyProoveCoordinatesIn3dPolygonArguments ==
    /\ valPc = "input"
    /\ valOp = "verifyProoveCoordinatesIn3dPolygonArguments"
    /\ valPc' = "done"
    /\ valOut' = verifyProoveCoordinatesIn3dPolygonArguments(valPoint, valPolygon)
    /\ UNCHANGED <<valOp, valPoint, valPolygon, geoVars, cmbVars, rollVars, drvVars>>

RunProveCoordinatesIn3PointPolygon ==
    /\ valPc = "input"
    /\ valOp = "proveCoordinatesIn3PointPolygon"
    /\ valPc' = "done"
    /\ valOut' = proveCoordinatesIn3PointPolygon(valPoint, valPolygon)
    /\ UNCHANGED <<valOp, valPoint, valPolygon, geoVars, cmbVars, rollVars, drvVars>>

ValNext ==
    \/ RunAssertIsValid
    \/ RunVerifyProoveCoordinatesIn3dPolygonArguments
    \/ RunProveCoordinatesIn3PointPolygon

SpecValidation == ValInit /\ [][ValNext]_vars

(***************************************************************************)
(* The proof-session driver: the class that adds the Prove methods to a    *)
(* ZKGeoPoint.  The circuits and proof wrappers it imports are outside     *)
(* this development's sources; each is modelled by what the driver needs   *)
(* of it.                                                                  *)
(***************************************************************************)
\* How many inPolygon invocations a driver run makes at most.
MaxInPolygon == 3

\* How many calls a caller that does not await its calls may have suspended
\* at an await at once.
MaxOverlap == 2

\* How many authentications a driver run completes at most.
MaxAuthentications == 1

\* The ZKGeoPoint the driver belongs to, and the polygons it is asked about.
DrvGeoPoint == NoncedGeographicalPoint(GeographicalPoint(0, 0, 1), 1)

\* The point is inside the first two and outside the last two.
DrvPolygons ==
    { ThreePointPolygon(GeographicalPoint(-1, -1, 1), GeographicalPoint(-1, 2, 1),
                        GeographicalPoint(2, -1, 1)),
      ThreePointPolygon(GeographicalPoint(0, 0, 1), GeographicalPoint(2, 0, 1),
                        GeographicalPoint(0, 2, 1)),
      ThreePointPolygon(GeographicalPoint(1, 1, 1), GeographicalPoint(2, 1, 1),
                        GeographicalPoint(1, 2, 1)),
      ThreePointPolygon(GeographicalPoint(1, 2, 1), GeographicalPoint(2, 2, 1),
                        GeographicalPoint(2, 1, 1)) }

\* The Integration Oracle key a caller authenticates with.
OracleKeys == { 1 }

\* GeoPointProviderCircuit.fromOracle over OracleGeoPointProviderCircuit
\* .fromSignature: the provider proof of a point attested under a key.
GeoPointProviderCircuitProof(publicKey, point) ==
    [source |-> publicKey, geoPoint |-> point]

\* new ZKGeoPointProviderCircuitProof(proof).
ZKGeoPointProviderCircuitProof(proof) == [proof |-> proof]

\* GeoPointInPolygonCircuit.proveGeoPointIn3PointPolygon: the point-in-
\* polygon proof of the provider proof's point.
proveGeoPointIn3PointPolygon(geoPointProof, polygon) ==
    proveCoordinatesIn3PointPolygon(geoPointProof.geoPoint, polygon)

\* new ZKGeoPointInPolygonProof({geoPoint, proof, polygon}); `call' tells
\* the objects that inPolygon creates apart: it is the number of the
\* invocation that created the object, 0 for an object made elsewhere.
ZKGeoPointInPolygonProof(call, proof) == [call |-> call, proof |-> proof]

\* ZKGeoPointInPolygonProof.UnverifiedProofData.isInside.
isInside(zkProof) == zkProof.proof.isInPolygon

\* ZKGeoPointInPolygonProof.AND: the AND circuit on the two wrapped proofs.
ZKGeoPointInPolygonProofAND(zkProof1, zkProof2) ==
    LET combined == AND(zkProof1.proof, zkProof2.proof)
    IN  IF combined = <<>>
        THEN <<>>
        ELSE <<ZKGeoPointInPolygonProof(0, combined[1])>>

\* ExactGeoPointCircuit.fromGeoPointProvider: reveals the point of the
\* provider proof.
fromGeoPointProvider(rawProof) ==
    [provider |-> rawProof, geoPoint |-> rawProof.geoPoint.point]

\* ExactGeolocationMetadataCircuit.attachMetadataToGeoPoint.
attachMetadataToGeoPoint(rawProof, metadata) ==
    [provider |-> rawProof, metadata |-> metadata]

\* GeoPointInOrOutOfPolygonCircuit.fromPointInPolygonProofs: one side of
\* the combination of two accumulators.
rollupSide(side1, side2) ==
    IF side1 = Field(0) THEN side2
    ELSE IF side2 = Field(0) THEN side1
    ELSE PoseidonHash(<<side1, side2>>)

\* GeoPointInOrOutOfPolygonCircuit.fromPointInPolygonProofs: lifts the two
\* proofs and combines the two accumulators, <<>> when they are about
\* different coordinates or are the same accumulator.  The proof it yields
\* is kept with the two proofs it verified, in the order they were given.
fromPointInPolygonProofs(insideProof, outsideProof) ==
    LET acc1 == fromCoordinatesInPolygonProof(insideProof)[1]
        acc2 == fromCoordinatesInPolygonProof(outsideProof)[1]
    IN  IF \/ acc1.coordinatesCommitment # acc2.coordinatesCommitment
           \/ acc1 = acc2
        THEN <<>>
        ELSE <<[verified |-> <<insideProof, outsideProof>>,
                publicOutput |->
                    CoordinatePolygonInclusionExclusionProof(
                        rollupSide(acc1.insidePolygonCommitment,
                                   acc2.insidePolygonCommitment),
                        rollupSide(acc1.outsidePolygonCommitment,
                                   acc2.outsidePolygonCommitment),
                        acc1.coordinatesCommitment)]>>

\* getIntegrationOracleProofOrError testing for null, as exactGeoPoint does.
getIntegrationOracleProofOrErrorNullCheck(oracleProof) ==
    IF oracleProof = Null
    THEN <<>>
    ELSE IF oracleProof = Undefined
    THEN <<ZKGeoPointProviderCircuitProof(GeoPointProviderCircuitProof(0, DrvGeoPoint))>>
    ELSE <<oracleProof[2]>>

\* getIntegrationOracleProofOrError: <<>> when it throws, otherwise the
\* stored proof.
getIntegrationOracleProofOrError(oracleProof) ==
    IF oracleProof = Undefined THEN <<>> ELSE <<oracleProof[2]>>

(***************************************************************************)
(* SpecDriver: one driver and its caller.  A call runs from its invocation *)
(* to its first await in one step and from one await to the next in one    *)
(* step; between the steps of a call the caller may invoke further calls   *)
(* and other suspended calls may resume.  A prover either yields its proof *)
(* or fails.  Consecutive awaits with no driver field read or written      *)
(* between them are one await.                                             *)
(*                                                                         *)
(* The caller of SpecDriver awaits each call before it invokes the next;   *)
(* the caller of SpecOverlap invokes calls without awaiting.               *)
(***************************************************************************)
CallerAwaits == drvPending = <<>>

CallerOverlaps == Len(drvPending) < MaxOverlap

NewCall(op, arg) == [NoCall EXCEPT !.op = op, !.arg = <<op, arg>>]

Suspended(call, at) == [call EXCEPT !.status = "awaiting", !.at = at, !.awaited = TRUE]

Threw(call) == [call EXCEPT !.status = "threw", !.at = "none"]

Returned(call, result) ==
    [call EXCEPT !.status = "returned", !.at = "none", !.result = <<call.op, result>>]

Without(calls, i) == SubSeq(calls, 1, i - 1) \o SubSeq(calls, i + 1, Len(calls))

PolygonLists ==
    { <<>> } \cup { <<a>> : a \in DrvPolygons }
             \cup { <<a, b>> : a \in DrvPolygons, b \in DrvPolygons }

\* The lists of proofs a caller gives to combineProofs: the first so many
\* of the proofs recorded on one side, or all the recorded proofs.
Prefixes(proofs) == { SubSeq(proofs, 1, n) : n \in 0 .. Len(proofs) }

ProofLists ==
    Prefixes(insidePolygonProofs) \cup Prefixes(outsidePolygonProofs)
        \cup { insidePolygonProofs \o outsidePolygonProofs }

Metadata == { "hello" }

DrvInit ==
    /\ DrvIdle
    /\ GeoIdle
    /\ CmbIdle
    /\ RollIdle
    /\ ValIdle

PendingAuthentications ==
    Cardinality({ i \in 1 .. Len(drvPending) :
                    drvPending[i].op = "authenticateFromIntegrationOracle" })

\* authenticateFromIntegrationOracle up to its await of the Oracle prover.
AuthenticateFromIntegrationOracleInvocation(admitted) ==
    \E publicKey \in OracleKeys :
        /\ admitted
        /\ Len(allProfs) + PendingAuthentications < MaxAuthentications
        /\ drvPending' =
               Append(drvPending,
                      Suspended(NewCall("authenticateFromIntegrationOracle", publicKey),
                                "prover"))
        /\ UNCHANGED <<integrationOracleProof, exactGeolocationMetadataProof,
                       insidePolygonProofs, outsidePolygonProofs, allProfs, drvLast,
                       drvInvoked, geoVars, cmbVars, rollVars, valVars>>

InvokeAuthenticateFromIntegrationOracle ==
    AuthenticateFromIntegrationOracleInvocation(CallerAwaits)

\* authenticateFromIntegrationOracle from the provers' answer to its return.
SettleAuthenticateFromIntegrationOracle ==
    \E i \in 1 .. Len(drvPending), ok \in BOOLEAN :
        LET call == drvPending[i]
            zkProof == ZKGeoPointProviderCircuitProof(
                           GeoPointProviderCircuitProof(call.arg[2], DrvGeoPoint))
        IN  /\ call.op = "authenticateFromIntegrationOracle"
            /\ drvPending' = Without(drvPending, i)
            /\ IF ok
               THEN /\ integrationOracleProof' = Object(zkProof)
                    /\ allProfs' = Append(allProfs, zkProof)
                    /\ drvLast' = Returned([call EXCEPT !.mutated = TRUE], zkProof)
               ELSE /\ drvLast' = Threw(call)
                    /\ UNCHANGED <<integrationOracleProof, allProfs>>
            /\ UNCHANGED <<exactGeolocationMetadataProof, insidePolygonProofs,
                           outsidePolygonProofs, drvInvoked, geoVars, cmbVars,
                           rollVars, valVars>>

\* inPolygon without its check of integrationOracleProof.
inPolygonInvokedUnchecked(call, oracleProof, invoked) ==
    Suspended([call EXCEPT !.captured =
                               IF oracleProof = Undefined
                               THEN <<GeoPointProviderCircuitProof(0, DrvGeoPoint)>>
                               ELSE <<oracleProof[2].proof>>,
                           !.stamp = invoked + 1],
              "prover")

\* One inPolygon invocation inside `call', up to its await of the prover:
\* the call after the invocation, given the driver's fields before it.
inPolygonInvoked(call, oracleProof, invoked) ==
    IF oracleProof = Undefined
    THEN Threw(call)
    ELSE Suspended([call EXCEPT !.captured = <<oracleProof[2].proof>>,
                                !.stamp = invoked + 1],
                   "prover")

\* inPolygon up to its await of the prover.
InPolygonInvocation(admitted) ==
    \E polygon \in DrvPolygons :
        LET call == inPolygonInvoked([NewCall("inPolygon", polygon) EXCEPT
                                         !.todo = <<polygon>>],
                                     integrationOracleProof, drvInvoked)
        IN  /\ admitted
            /\ IF call.status = "threw"
               THEN /\ drvLast' = call
                    /\ UNCHANGED <<drvPending, drvInvoked>>
               ELSE /\ drvInvoked < MaxInPolygon
                    /\ drvPending' = Append(drvPending, call)
                    /\ drvInvoked' = drvInvoked + 1
                    /\ UNCHANGED drvLast
            /\ UNCHANGED <<integrationOracleProof, exactGeolocationMetadataProof,
                           insidePolygonProofs, outsidePolygonProofs, allProfs,
                           geoVars, cmbVars, rollVars, valVars>>

InvokeInPolygon == InPolygonInvocation(CallerAwaits)

\* inPolygons up to its await of the import.
InvokeInPolygons ==
    \E polygons \in PolygonLists :
        LET call == [NewCall("inPolygons", polygons) EXCEPT !.todo = polygons]
        IN  /\ CallerAwaits
            /\ IF Len(polygons) = 0
               THEN /\ drvLast' = Threw(call)
                    /\ UNCHANGED drvPending
               ELSE /\ drvInvoked + Len(polygons) <= MaxInPolygon
                    /\ drvPending' = Append(drvPending, Suspended(call, "import"))
                    /\ UNCHANGED drvLast
            /\ UNCHANGED <<integrationOracleProof, exactGeolocationMetadataProof,
                           insidePolygonProofs, outsidePolygonProofs, allProfs,
                           drvInvoked, geoVars, cmbVars, rollVars, valVars>>

\* inPolygons from the import to the first inPolygon's await of the prover.
InPolygonsImported ==
    \E i \in 1 .. Len(drvPending) :
        LET call == inPolygonInvoked(drvPending[i], integrationOracleProof, drvInvoked)
        IN  /\ drvPending[i].at = "import"
            /\ IF call.status = "threw"
               THEN /\ drvLast' = call
                    /\ drvPending' = Without(drvPending, i)
                    /\ UNCHANGED drvInvoked
               ELSE /\ drvPending' = [drvPending EXCEPT ![i] = call]
                    /\ drvInvoked' = drvInvoked + 1
                    /\ UNCHANGED drvLast
            /\ UNCHANGED <<integrationOracleProof, exactGeolocationMetadataProof,
                           insidePolygonProofs, outsidePolygonProofs, allProfs,
                           geoVars, cmbVars, rollVars, valVars>>

\* The recording with the test of the side negated.
recordInPolygonProofOnOtherSide(zkProof, inside, outside) ==
    IF ~isInside(zkProof)
    THEN [inside |-> Append(inside, zkProof), outside |-> outside]
    ELSE [inside |-> inside, outside |-> Append(outside, zkProof)]

\* inPolygon, the recording of its proof: pushed on the inside list when
\* the proof says inside, on the outside list otherwise.
recordInPolygonProof(zkProof, inside, outside) ==
    IF isInside(zkProof)
    THEN [inside |-> Append(inside, zkProof), outside |-> outside]
    ELSE [inside |-> inside, outside |-> Append(outside, zkProof)]

\* inPolygon from the prover's answer to its return: the proof is recorded
\* in the list of its side.  Inside inPolygons the loop that awaits inPolygon
\* resumes only after a yield: the call is left at that await.
SettleInPolygon ==
    \E i \in 1 .. Len(drvPending), ok \in BOOLEAN :
        LET call == drvPending[i]
            proof == proveGeoPointIn3PointPolygon(call.captured[1], Head(call.todo))
            zkProof == ZKGeoPointInPolygonProof(call.stamp, proof[1])
            recorded == [call EXCEPT !.todo = Tail(call.todo),
                                     !.got = Append(call.got, zkProof),
                                     !.mutated = TRUE]
        IN  /\ call.op \in { "inPolygon", "inPolygons" }
            /\ call.at = "prover"
            /\ IF ok /\ proof # <<>>
               THEN /\ insidePolygonProofs' =
                           recordInPolygonProof(zkProof, insidePolygonProofs,
                                                outsidePolygonProofs).inside
                    /\ outsidePolygonProofs' =
                           recordInPolygonProof(zkProof, insidePolygonProofs,
                                                outsidePolygonProofs).outside
                    /\ IF call.op = "inPolygon"
                       THEN /\ drvLast' = Returned(recorded, zkProof)
                            /\ drvPending' = Without(drvPending, i)
                       ELSE /\ drvPending' = [drvPending EXCEPT ![i] =
                                                  Suspended(recorded, "inPolygon")]
                            /\ UNCHANGED drvLast
               ELSE /\ drvLast' = Threw(call)
                    /\ drvPending' = Without(drvPending, i)
                    /\ UNCHANGED <<insidePolygonProofs, outsidePolygonProofs>>
            /\ UNCHANGED <<integrationOracleProof, exactGeolocationMetadataProof,
                           allProfs, drvInvoked, geoVars, cmbVars, rollVars, valVars>>

\* inPolygons from its await of an inPolygon to the next await or to its
\* return: the loop goes on to the next polygon's inPolygon, which reads
\* integrationOracleProof as it is now, or returns the proofs.
ResumeInPolygons ==
    \E i \in 1 .. Len(drvPending) :
        LET call == drvPending[i]
            next == inPolygonInvoked(call, integrationOracleProof, drvInvoked)
        IN  /\ call.op = "inPolygons"
            /\ call.at = "inPolygon"
            /\ IF call.todo = <<>>
               THEN /\ drvLast' = Returned(call, call.got)
                    /\ drvPending' = Without(drvPending, i)
                    /\ UNCHANGED drvInvoked
               ELSE IF next.status = "threw"
               THEN /\ drvLast' = next
                    /\ drvPending' = Without(drvPending, i)
                    /\ UNCHANGED drvInvoked
               ELSE /\ drvPending' = [drvPending EXCEPT ![i] = next]
                    /\ drvInvoked' = drvInvoked + 1
                    /\ UNCHANGED drvLast
            /\ UNCHANGED <<integrationOracleProof, exactGeolocationMetadataProof,
                           insidePolygonProofs, outsidePolygonProofs, allProfs,
                           geoVars, cmbVars, rollVars, valVars>>

\* exactGeoPoint, with exactGeoPointForIntegrationOracle, up to the await
\* of the prover.
InvokeExactGeoPoint ==
    LET call == NewCall("exactGeoPoint", <<>>)
        oracleProof == getIntegrationOracleProofOrError(integrationOracleProof)
    IN  /\ CallerAwaits
        /\ IF integrationOracleProof = Null
           THEN /\ drvLast' = Threw(call)
                /\ UNCHANGED drvPending
           ELSE IF oracleProof = <<>>
           THEN /\ drvLast' = Threw(call)
                /\ UNCHANGED drvPending
           ELSE /\ drvPending' =
                       Append(drvPending,
                              Suspended([call EXCEPT !.captured = <<oracleProof[1].proof>>],
                                        "prover"))
                /\ UNCHANGED drvLast
        /\ UNCHANGED <<integrationOracleProof, exactGeolocationMetadataProof,
                       insidePolygonProofs, outsidePolygonProofs, allProfs,
                       drvInvoked, geoVars, cmbVars, rollVars, valVars>>

\* exactGeoPointForIntegrationOracle from the prover's answer to the return.
SettleExactGeoPoint ==
    \E i \in 1 .. Len(drvPending), ok \in BOOLEAN :
        LET call == drvPending[i]
        IN  /\ call.op = "exactGeoPoint"
            /\ drvPending' = Without(drvPending, i)
            /\ drvLast' = IF ok
                          THEN Returned(call, [geoPoint |-> DrvGeoPoint,
                                               proof |-> fromGeoPointProvider(call.captured[1])])
                          ELSE Threw(call)
            /\ UNCHANGED <<integrationOracleProof, exactGeolocationMetadataProof,
                           insidePolygonProofs, outsidePolygonProofs, allProfs,
                           drvInvoked, geoVars, cmbVars, rollVars, valVars>>

\* attachMetadata up to its await of the prover.
InvokeAttachMetadata ==
    \E metadata \in Metadata :
        LET call == NewCall("attachMetadata", metadata)
        IN  /\ CallerAwaits
            /\ IF integrationOracleProof = Undefined
               THEN /\ drvLast' = Threw(call)
                    /\ UNCHANGED drvPending
               ELSE /\ drvPending' =
                           Append(drvPending,
                                  Suspended([call EXCEPT
                                                !.captured = <<integrationOracleProof[2].proof>>],
                                            "prover"))
                    /\ UNCHANGED drvLast
            /\ UNCHANGED <<integrationOracleProof, exactGeolocationMetadataProof,
                           insidePolygonProofs, outsidePolygonProofs, allProfs,
                           drvInvoked, geoVars, cmbVars, rollVars, valVars>>

\* attachMetadata from the prover's answer to its return.
SettleAttachMetadata ==
    \E i \in 1 .. Len(drvPending), ok \in BOOLEAN :
        LET call == drvPending[i]
            zkProof == [geoPoint |-> DrvGeoPoint, metadata |-> call.arg[2],
                        proof |-> attachMetadataToGeoPoint(call.captured[1], call.arg[2])]
        IN  /\ call.op = "attachMetadata"
            /\ drvPending' = Without(drvPending, i)
            /\ IF ok
               THEN /\ exactGeolocationMetadataProof' = Object(zkProof)
                    /\ drvLast' = Returned([call EXCEPT !.mutated = TRUE], zkProof)
               ELSE /\ drvLast' = Threw(call)
                    /\ UNCHANGED exactGeolocationMetadataProof
            /\ UNCHANGED <<integrationOracleProof, insidePolygonProofs,
                           outsidePolygonProofs, allProfs, drvInvoked, geoVars,
                           cmbVars, rollVars, valVars>>

\* combineProofs without its check of the number of proofs: a single proof
\* is returned as it is.
combineProofsInvokedOfOneOrMore(call, proofs) ==
    IF Len(proofs) = 0
    THEN Threw(call)
    ELSE IF Len(proofs) = 1
    THEN Returned(call, proofs[1])
    ELSE Suspended([call EXCEPT !.captured = <<proofs[1], proofs[2]>>], "firstAND")

\* combineProofs, inside `call', up to its await of the first AND: the call
\* after the invocation.  captured holds the two operands of the AND in
\* flight.
combineProofsInvoked(call, proofs) ==
    IF Len(proofs) < 2
    THEN Threw(call)
    ELSE Suspended([call EXCEPT !.captured = <<proofs[1], proofs[2]>>], "firstAND")

\* The loop of combineProofs with the operands of its AND exchanged.
combineProofsLoopOntoNext(call, combinedProof, proofs) ==
    Suspended([call EXCEPT !.captured = <<Head(proofs), combinedProof>>,
                           !.todo = Tail(proofs)],
              "nextAND")

\* combineProofs, one turn of the loop over proofs.slice(2), up to its
\* await: the next proof is ANDed onto the combination so far.
combineProofsLoop(call, combinedProof, proofs) ==
    Suspended([call EXCEPT !.captured = <<combinedProof, Head(proofs)>>,
                           !.todo = Tail(proofs)],
              "nextAND")

\* combinePointInPolygonProofs from the rolled-up inside proof (in got) to
\* its next await: a single outside proof is used as it is and the method
\* goes on, through the import, to the roll-up circuit; several are
\* combined.
rolledUpOutsidePolygonProofs(call, outside) ==
    IF Len(outside) = 1
    THEN Suspended([call EXCEPT !.got = Append(call.got, outside[1])], "rollup")
    ELSE combineProofsInvoked(call, outside)

\* combinePointInPolygonProofs from its two checks to its first await: a
\* single inside proof is used as it is, several are combined.
rolledUpInsidePolygonProofs(call, inside, outside) ==
    IF Len(inside) = 1
    THEN rolledUpOutsidePolygonProofs([call EXCEPT !.got = <<inside[1]>>], outside)
    ELSE combineProofsInvoked(call, inside)

\* combinePointInPolygonProofs without its check of the outside list: with
\* no outside proof it rolls the first inside proof up with itself.
combinePointInPolygonProofsInvokedInsideOnly(call, inside, outside) ==
    IF Len(inside) = 0
    THEN Threw(call)
    ELSE IF Len(outside) = 0
    THEN Suspended([call EXCEPT !.got = <<inside[1], inside[1]>>], "rollup")
    ELSE rolledUpInsidePolygonProofs(call, inside, outside)

\* combinePointInPolygonProofs up to its first await.
combinePointInPolygonProofsInvoked(call, inside, outside) ==
    IF Len(inside) = 0
    THEN Threw(call)
    ELSE IF Len(outside) = 0
    THEN Threw(call)
    ELSE rolledUpInsidePolygonProofs(call, inside, outside)

\* combineProofs, on a list the caller holds, up to its await of the first
\* AND.  It reads and writes no field of the driver.
InvokeCombineProofs ==
    \E proofs \in ProofLists :
        LET call == combineProofsInvoked(NewCall("combineProofs", proofs), proofs)
        IN  /\ CallerAwaits
            /\ IF call.status = "awaiting"
               THEN /\ drvPending' = Append(drvPending, call)
                    /\ UNCHANGED drvLast
               ELSE /\ drvLast' = call
                    /\ UNCHANGED drvPending
            /\ UNCHANGED <<integrationOracleProof, exactGeolocationMetadataProof,
                           insidePolygonProofs, outsidePolygonProofs, allProfs,
                           drvInvoked, geoVars, cmbVars, rollVars, valVars>>

\* combinePointInPolygonProofs up to its first await.  The argument kept
\* with the call is the two lists as they are at the invocation.
CombinePointInPolygonProofsInvocation(admitted) ==
    LET call == combinePointInPolygonProofsInvoked(
                    NewCall("combinePointInPolygonProofs",
                            <<insidePolygonProofs, outsidePolygonProofs>>),
                    insidePolygonProofs, outsidePolygonProofs)
    IN  /\ admitted
        /\ IF call.status = "awaiting"
           THEN /\ drvPending' = Append(drvPending, call)
                /\ UNCHANGED drvLast
           ELSE /\ drvLast' = call
                /\ UNCHANGED drvPending
        /\ UNCHANGED <<integrationOracleProof, exactGeolocationMetadataProof,
                       insidePolygonProofs, outsidePolygonProofs, allProfs,
                       drvInvoked, geoVars, cmbVars, rollVars, valVars>>

InvokeCombinePointInPolygonProofs == CombinePointInPolygonProofsInvocation(CallerAwaits)

\* The list a suspended combineProofs folds: the caller's for a call of
\* combineProofs; inside combinePointInPolygonProofs the driver's own
\* inside list, or its outside list once the inside proofs are rolled up.
\* The driver's lists are passed by reference, so the list is as it is when
\* it is read.
proofsOf(call) ==
    IF call.op = "combineProofs"
    THEN call.arg[2]
    ELSE IF call.got = <<>>
    THEN insidePolygonProofs
    ELSE outsidePolygonProofs

\* combineProofs from the answer of an AND to the next await or to its end.
\* After the first AND the loop takes proofs.slice(2) of the list as it is
\* then.  At the end of combineProofs a call of combineProofs returns.
\* Inside combinePointInPolygonProofs the method that awaits combineProofs
\* resumes only after a yield: with the inside proofs rolled up it is left
\* at that await, before it reads the outside list; with the outside proofs
\* rolled up it reads no list any more and goes on, through the import, to
\* the roll-up circuit.
SettleAND ==
    \E i \in 1 .. Len(drvPending), ok \in BOOLEAN :
        LET call == drvPending[i]
            combinedProof == ZKGeoPointInPolygonProofAND(call.captured[1],
                                                         call.captured[2])
            proofs == IF call.at = "firstAND"
                      THEN SubSeq(proofsOf(call), 3, Len(proofsOf(call)))
                      ELSE call.todo
            rolledUp == [call EXCEPT !.got = Append(call.got, combinedProof[1]),
                                     !.captured = <<>>]
            next == IF ~ok \/ combinedProof = <<>>
                    THEN Threw(call)
                    ELSE IF proofs # <<>>
                    THEN combineProofsLoop(call, combinedProof[1], proofs)
                    ELSE IF call.op = "combineProofs"
                    THEN Returned(call, combinedProof[1])
                    ELSE IF call.got = <<>>
                    THEN Suspended(rolledUp, "combineProofs")
                    ELSE Suspended(rolledUp, "rollup")
        IN  /\ call.op \in { "combineProofs", "combinePointInPolygonProofs" }
            /\ call.at \in { "firstAND", "nextAND" }
            /\ IF next.status = "awaiting"
               THEN /\ drvPending' = [drvPending EXCEPT ![i] = next]
                    /\ UNCHANGED drvLast
               ELSE /\ drvLast' = next
                    /\ drvPending' = Without(drvPending, i)
            /\ UNCHANGED <<integrationOracleProof, exactGeolocationMetadataProof,
                           insidePolygonProofs, outsidePolygonProofs, allProfs,
                           drvInvoked, geoVars, cmbVars, rollVars, valVars>>

\* combinePointInPolygonProofs from its await of combineProofs on the inside
\* list to its next await: the outside list is read as it is now.
ResumeCombinePointInPolygonProofs ==
    \E i \in 1 .. Len(drvPending) :
        LET call == drvPending[i]
        IN  /\ call.op = "combinePointInPolygonProofs"
            /\ call.at = "combineProofs"
            /\ drvPending' = [drvPending EXCEPT ![i] =
                                  rolledUpOutsidePolygonProofs(call, outsidePolygonProofs)]
            /\ UNCHANGED <<integrationOracleProof, exactGeolocationMetadataProof,
                           insidePolygonProofs, outsidePolygonProofs, allProfs,
                           drvLast, drvInvoked, geoVars, cmbVars, rollVars, valVars>>

\* combinePointInPolygonProofs from the answer of the roll-up circuit to its
\* return.
SettleCombinePointInPolygonProofs ==
    \E i \in 1 .. Len(drvPending), ok \in BOOLEAN :
        LET call == drvPending[i]
            proof == fromPointInPolygonProofs(call.got[1].proof, call.got[2].proof)
        IN  /\ call.op = "combinePointInPolygonProofs"
            /\ call.at = "rollup"
            /\ drvLast' = IF ok /\ proof # <<>>
                          THEN Returned(call, [insideRollUp |-> call.got[1],
                                               outsideRollUp |-> call.got[2],
                                               proof |-> proof[1]])
                          ELSE Threw(call)
            /\ drvPending' = Without(drvPending, i)
            /\ UNCHANGED <<integrationOracleProof, exactGeolocationMetadataProof,
                           insidePolygonProofs, outsidePolygonProofs, allProfs,
                           drvInvoked, geoVars, cmbVars, rollVars, valVars>>

DrvNext ==
    \/ InvokeAuthenticateFromIntegrationOracle
    \/ SettleAuthenticateFromIntegrationOracle
    \/ InvokeInPolygon
    \/ InvokeInPolygons
    \/ InPolygonsImported
    \/ SettleInPolygon
    \/ ResumeInPolygons
    \/ InvokeExactGeoPoint
    \/ SettleExactGeoPoint
    \/ InvokeAttachMetadata
    \/ SettleAttachMetadata
    \/ InvokeCombineProofs
    \/ InvokeCombinePointInPolygonProofs
    \/ SettleAND
    \/ ResumeCombinePointInPolygonProofs
    \/ SettleCombinePointInPolygonProofs

SpecDriver == DrvInit /\ [][DrvNext]_vars

(***************************************************************************)
(* SpecOverlap: the same driver with a caller that invokes                 *)
(* authenticateFromIntegrationOracle, inPolygon and                        *)
(* combinePointInPolygonProofs without awaiting the calls before.          *)
(***************************************************************************)
OverlapAuthenticateFromIntegrationOracle ==
    AuthenticateFromIntegrationOracleInvocation(CallerOverlaps)

OverlapInPolygon == InPolygonInvocation(CallerOverlaps)

OverlapCombinePointInPolygonProofs ==
    CombinePointInPolygonProofsInvocation(CallerOverlaps)

OverlapNext ==
    \/ OverlapAuthenticateFromIntegrationOracle
    \/ SettleAuthenticateFromIntegrationOracle
    \/ OverlapInPolygon
    \/ SettleInPolygon
    \/ OverlapCombinePointInPolygonProofs
    \/ SettleAND
    \/ ResumeCombinePointInPolygonProofs
    \/ SettleCombinePointInPolygonProofs

SpecOverlap == DrvInit /\ [][OverlapNext]_vars

(***************************************************************************)
(* Reference geometry, used only to state the properties: the closed       *)
(* triangle is the convex hull of its three vertices.  Signs of integer    *)
(* cross products decide the rational test exactly.                        *)
(***************************************************************************)
RefCross(a, b, p) ==
    (b.latitude - a.latitude) * (p.longitude - a.longitude)
        - (b.longitude - a.longitude) * (p.latitude - a.latitude)

\* p lies on the closed segment from a to b.
RefOnSegment(a, b, p) ==
    /\ RefCross(a, b, p) = 0
    /\ (p.latitude - a.latitude) * (p.latitude - b.latitude)
           + (p.longitude - a.longitude) * (p.longitude - b.longitude) <= 0

RefIsDegenerate(t) == RefCross(t.vertice1, t.vertice2, t.vertice3) = 0

RefOnBoundary(t, p) ==
    \/ RefOnSegment(t.vertice1, t.vertice2, p)
    \/ RefOnSegment(t.vertice2, t.vertice3, p)
    \/ RefOnSegment(t.vertice3, t.vertice1, p)

RefInTriangle(t, p) ==
    LET d1 == RefCross(t.vertice1, t.vertice2, p)
        d2 == RefCross(t.vertice2, t.vertice3, p)
        d3 == RefCross(t.vertice3, t.vertice1, p)
        hasNeg == d1 < 0 \/ d2 < 0 \/ d3 < 0
        hasPos == d1 > 0 \/ d2 > 0 \/ d3 > 0
    IN  IF RefIsDegenerate(t) THEN RefOnBoundary(t, p) ELSE ~(hasNeg /\ hasPos)

\* C1: for every point and triangle of one factor, the bit returned by
\* isPointIn3PointPolygon equals the exact planar point-in-triangle test,
\* boundary points counting as inside.  Stated for the triangles of
\* non-zero area, where the closed triangle is unambiguous.
C1_MatchesReference ==
    (geoPc = "done" /\ ~RefIsDegenerate(geoPolygon))
        => geoInside = RefInTriangle(geoPolygon, geoPoint.point)

\* C2: a query point equal to a vertex, or lying on an edge (inside the
\* edge's bounding box and satisfying the collinearity equality), is
\* classified INSIDE whatever the ray-casting loop computed.
C2_OnEdge(p, a, b) ==
    LET lo(u, v) == IF u < v THEN u ELSE v
        hi(u, v) == IF u < v THEN v ELSE u
    IN  /\ lo(a.latitude, b.latitude) <= p.latitude
        /\ p.latitude <= hi(a.latitude, b.latitude)
        /\ lo(a.longitude, b.longitude) <= p.longitude
        /\ p.longitude <= hi(a.longitude, b.longitude)
        /\ (b.latitude - a.latitude) * (p.longitude - a.longitude)
               = (p.latitude - a.latitude) * (b.longitude - a.longitude)

C2_VertexOrEdge ==
    LET p == geoPoint.point
        t == geoPolygon
    IN  \/ p \in {t.vertice1, t.vertice2, t.vertice3}
        \/ C2_OnEdge(p, t.vertice1, t.vertice2)
        \/ C2_OnEdge(p, t.vertice2, t.vertice3)
        \/ C2_OnEdge(p, t.vertice3, t.vertice1)

C2_BoundaryIsInside ==
    (geoPc = "done" /\ C2_VertexOrEdge) => geoInside = TRUE

\* An edge-interior point of a proper triangle that the ray-casting loop
\* alone leaves outside, and that the circuit classified INSIDE.
C2_Witness ==
    /\ geoPc = "done"
    /\ ~RefIsDegenerate(geoPolygon)
    /\ C2_VertexOrEdge
    /\ geoPoint.point \notin {geoPolygon.vertice1, geoPolygon.vertice2, geoPolygon.vertice3}
    /\ ~rayCast(geoPoint, geoPolygon)
    /\ geoInside = TRUE

(***************************************************************************)
(* Properties of the combiners, under SpecCombiners.                       *)
(***************************************************************************)
CmbRan(op) == cmbPc = "done" /\ cmbOp = op

\* C3: AND yields an output only when the two input bits are equal, and the
\* output bit is then that shared value; when the bits differ AND fails and
\* yields no proof.
C3_ANDRequiresEqualPolarity ==
    CmbRan("AND") =>
        IF cmbProof1.isInPolygon = cmbProof2.isInPolygon
        THEN cmbOut # <<>> => cmbOut[1].isInPolygon = cmbProof1.isInPolygon
        ELSE cmbOut = <<>>

\* C4: AND and OR fail, yielding no output, whenever the two input proofs
\* carry the same polygonCommitment.
C4_SamePolygonRejected ==
    ((CmbRan("AND") \/ CmbRan("OR"))
        /\ cmbProof1.polygonCommitment = cmbProof2.polygonCommitment)
        => cmbOut = <<>>

\* AND(P, P) was attempted and yielded no proof.
C4_Witness ==
    /\ CmbRan("AND")
    /\ cmbProof1 = cmbProof2
    /\ cmbOut = <<>>

\* C5: for inputs of equal coordinate commitments and different polygon
\* commitments OR succeeds, and its output bit is P1.isInside \/ P2.isInside.
C5_ORIsDisjunction ==
    (CmbRan("OR")
        /\ cmbProof1.coordinatesCommitment = cmbProof2.coordinatesCommitment
        /\ cmbProof1.polygonCommitment # cmbProof2.polygonCommitment)
        => /\ cmbOut # <<>>
           /\ cmbOut[1].isInPolygon = (cmbProof1.isInPolygon \/ cmbProof2.isInPolygon)

\* OR of an outside proof with an inside proof succeeded with bit TRUE.
C5_Witness ==
    /\ CmbRan("OR")
    /\ ~cmbProof1.isInPolygon
    /\ cmbProof2.isInPolygon
    /\ cmbOut # <<>>
    /\ cmbOut[1].isInPolygon

\* C6: AND and OR fail when the inputs' coordinatesCommitment differ; when
\* they succeed the output coordinatesCommitment is the shared input
\* commitment and the output polygonCommitment is
\* Poseidon(P1.polygonCommitment, P2.polygonCommitment), P1 first.
C6_CommitmentsOfCombination ==
    (CmbRan("AND") \/ CmbRan("OR")) =>
        /\ cmbProof1.coordinatesCommitment # cmbProof2.coordinatesCommitment
               => cmbOut = <<>>
        /\ cmbOut # <<>> =>
               /\ cmbOut[1].coordinatesCommitment = cmbProof1.coordinatesCommitment
               /\ cmbOut[1].coordinatesCommitment = cmbProof2.coordinatesCommitment
               /\ cmbOut[1].polygonCommitment =
                      <<1>> \o cmbProof1.polygonCommitment
                           \o cmbProof2.polygonCommitment \o <<2>>

\* AND succeeded on two proofs, the first of which is itself a combination.
C6_Witness ==
    /\ CmbRan("AND")
    /\ cmbProof1 \notin BaseProofs
    /\ cmbOut # <<>>

(***************************************************************************)
(* Properties of the rollup, under SpecRollup.                             *)
(***************************************************************************)
RollRan(op) == rollPc = "done" /\ rollOp = op

\* C7: the lift of a proof has (inside, outside) = (polygonCommitment, 0)
\* when isInside holds and (0, polygonCommitment) when it does not, the
\* coordinate commitment copied; so exactly one side is non-zero whenever
\* the polygon commitment is non-zero.
C7_LiftPutsPolygonOnOneSide ==
    RollRan("lift") =>
        /\ rollOut # <<>>
        /\ rollOut[1].coordinatesCommitment = rollProof[1].coordinatesCommitment
        /\ rollProof[1].isInPolygon =>
               /\ rollOut[1].insidePolygonCommitment = rollProof[1].polygonCommitment
               /\ rollOut[1].outsidePolygonCommitment = <<0, 0>>
        /\ ~rollProof[1].isInPolygon =>
               /\ rollOut[1].insidePolygonCommitment = <<0, 0>>
               /\ rollOut[1].outsidePolygonCommitment = rollProof[1].polygonCommitment
        /\ rollProof[1].polygonCommitment # <<0, 0>> =>
               (rollOut[1].insidePolygonCommitment = <<0, 0>>)
                   # (rollOut[1].outsidePolygonCommitment = <<0, 0>>)

\* An outside proof was lifted: its polygon is on the outside only.
C7_Witness ==
    /\ RollRan("lift")
    /\ ~rollProof[1].isInPolygon
    /\ rollOut # <<>>
    /\ rollOut[1].outsidePolygonCommitment = rollProof[1].polygonCommitment
    /\ rollOut[1].insidePolygonCommitment = <<0, 0>>

\* The fold of one side: 0 if both are 0, the non-zero one if exactly one
\* is 0, the Poseidon hash of the two, first then second, otherwise.
RefSideFold(side1, side2) ==
    IF side1 = <<0, 0>>
    THEN side2
    ELSE IF side2 = <<0, 0>> THEN side1 ELSE <<1>> \o side1 \o side2 \o <<2>>

\* C8: for every accepted pair of accumulators, the insidePolygonCommitment
\* of combine's output is the fold of the two input inside commitments.
C8_InsideIsFoldOfInsides ==
    (RollRan("combine") /\ rollOut # <<>>) =>
        rollOut[1].insidePolygonCommitment =
            RefSideFold(rollAcc1[1].insidePolygonCommitment,
                        rollAcc2[1].insidePolygonCommitment)

\* C9: for every accepted pair of accumulators, the outsidePolygonCommitment
\* of combine's output is the fold of the two input outside commitments.
C9_OutsideIsFoldOfOutsides ==
    (RollRan("combine") /\ rollOut # <<>>) =>
        rollOut[1].outsidePolygonCommitment =
            RefSideFold(rollAcc1[1].outsidePolygonCommitment,
                        rollAcc2[1].outsidePolygonCommitment)

\* C10: given equal coordinate commitments, combine fails exactly when the
\* inside commitments are equal and the outside commitments are equal.
C10_CombineRejectsExactlyDuplicates ==
    (RollRan("combine")
        /\ rollAcc1[1].coordinatesCommitment = rollAcc2[1].coordinatesCommitment)
        => ((rollOut = <<>>) <=>
                /\ rollAcc1[1].insidePolygonCommitment = rollAcc2[1].insidePolygonCommitment
                /\ rollAcc1[1].outsidePolygonCommitment = rollAcc2[1].outsidePolygonCommitment)

\* combine accepted two accumulators that agree on the inside (both empty)
\* and differ on the outside.
C10_Witness ==
    /\ RollRan("combine")
    /\ rollAcc1[1].coordinatesCommitment = rollAcc2[1].coordinatesCommitment
    /\ rollAcc1[1].insidePolygonCommitment = rollAcc2[1].insidePolygonCommitment
    /\ rollAcc1[1].outsidePolygonCommitment # rollAcc2[1].outsidePolygonCommitment
    /\ rollOut # <<>>


(***************************************************************************)
(* Properties of the driver.  A step invokes a method when the call it     *)
(* makes either settles at once, without an await, or is added to the      *)
(* suspended calls.                                                        *)
(***************************************************************************)
ThrowsAtOnce(ops) ==
    /\ drvLast' # drvLast
    /\ drvLast'.op \in ops
    /\ drvLast'.status = "threw"
    /\ ~drvLast'.awaited
    /\ drvPending' = drvPending

Suspends(ops) ==
    /\ Len(drvPending') = Len(drvPending) + 1
    /\ drvPending'[Len(drvPending')].op \in ops

Invokes(ops) ==
    \/ Suspends(ops)
    \/ /\ drvLast' # drvLast
       /\ drvLast'.op \in ops
       /\ drvPending' = drvPending

\* C11: on a driver that has never completed
\* authenticateFromIntegrationOracle, every invocation of inPolygon and of
\* attachMetadata throws before it invokes a prover, and leaves the
\* authentication state and both proof lists as they were.
C11_UnauthenticatedFailsFast ==
    [][ (integrationOracleProof = Undefined
           /\ Invokes({ "inPolygon", "attachMetadata" }))
        => /\ ThrowsAtOnce({ "inPolygon", "attachMetadata" })
           /\ UNCHANGED <<integrationOracleProof, insidePolygonProofs,
                          outsidePolygonProofs>> ]_vars

C11_Witness ==
    /\ integrationOracleProof = Undefined
    /\ drvLast.op = "inPolygon"
    /\ drvLast.status = "threw"
    /\ ~drvLast.awaited

\* C12: exactGeoPoint invoked while integrationOracleProof is still
\* undefined throws and emits no reveal proof; invoked on an authenticated
\* driver it awaits the prover on the stored provider proof, and the reveal
\* proof it returns is built from that proof.
C12_ExactGeoPointRequiresAuthentication ==
    [][ /\ (integrationOracleProof = Undefined /\ Invokes({ "exactGeoPoint" }))
            => ThrowsAtOnce({ "exactGeoPoint" })
        /\ (integrationOracleProof # Undefined /\ Invokes({ "exactGeoPoint" }))
            => /\ Suspends({ "exactGeoPoint" })
               /\ drvPending'[Len(drvPending')].captured
                      = <<integrationOracleProof[2].proof>>
        /\ (drvLast' # drvLast /\ drvLast'.op = "exactGeoPoint"
               /\ drvLast'.status = "returned")
            => /\ integrationOracleProof # Undefined
               /\ drvLast'.result[2].proof
                      = fromGeoPointProvider(integrationOracleProof[2].proof) ]_vars

C12_Witness ==
    /\ integrationOracleProof = Undefined
    /\ drvLast.op = "exactGeoPoint"
    /\ drvLast.status = "threw"
    /\ ~drvLast.awaited
    /\ drvPending = <<>>

\* The call that the step invokes.
Invoked(ops) ==
    IF Suspends(ops) THEN drvPending'[Len(drvPending')] ELSE drvLast'

\* C13: combineProofs given fewer than two proofs throws without invoking
\* AND and changes no field of the driver.
C13_TooFewProofsRejected ==
    [][ (Invokes({ "combineProofs" }) /\ Len(Invoked({ "combineProofs" }).arg[2]) < 2)
        => /\ ThrowsAtOnce({ "combineProofs" })
           /\ UNCHANGED <<integrationOracleProof, exactGeolocationMetadataProof,
                          insidePolygonProofs, outsidePolygonProofs, allProfs>> ]_vars

C13_Witness ==
    /\ drvLast.op = "combineProofs"
    /\ Len(drvLast.arg[2]) = 1
    /\ drvLast.status = "threw"
    /\ ~drvLast.awaited

\* C14: combinePointInPolygonProofs throws at once, with no roll-up,
\* whenever the inside list or the outside list is empty, and goes on to
\* await its provers when both hold a proof; either way it leaves both
\* lists as they were.
C14_RollupNeedsBothSides ==
    [][ Invokes({ "combinePointInPolygonProofs" })
        => /\ UNCHANGED <<insidePolygonProofs, outsidePolygonProofs>>
           /\ IF insidePolygonProofs = <<>> \/ outsidePolygonProofs = <<>>
              THEN ThrowsAtOnce({ "combinePointInPolygonProofs" })
              ELSE Suspends({ "combinePointInPolygonProofs" }) ]_vars

C14_Witness ==
    /\ drvLast.op = "combinePointInPolygonProofs"
    /\ drvLast.status = "threw"
    /\ ~drvLast.awaited
    /\ insidePolygonProofs # <<>>
    /\ outsidePolygonProofs = <<>>

\* The left-to-right fold of the public outputs of the first n proofs of a
\* list: AND(... AND(AND(p1, p2), p3) ..., pn).
RECURSIVE RefLeftFold(_, _)
RefLeftFold(proofs, n) ==
    IF n = 1
    THEN proofs[1].proof
    ELSE ANDOutput(RefLeftFold(proofs, n - 1), proofs[n].proof)

\* C15: what combineProofs returns is the left-to-right fold of its list;
\* what combinePointInPolygonProofs rolls up is the left-to-right fold of
\* the inside list and of the outside list, a single proof being used as it
\* is, and the roll-up circuit is given the rolled inside proof first and
\* the rolled outside proof second.
C15_FoldsLeftToRight ==
    /\ (drvLast.op = "combineProofs" /\ drvLast.status = "returned")
        => drvLast.result[2].proof = RefLeftFold(drvLast.arg[2], Len(drvLast.arg[2]))
    /\ (drvLast.op = "combinePointInPolygonProofs" /\ drvLast.status = "returned")
        => LET inside == drvLast.arg[2][1]
               outside == drvLast.arg[2][2]
               zkProof == drvLast.result[2]
           IN  /\ zkProof.insideRollUp.proof = RefLeftFold(inside, Len(inside))
               /\ zkProof.outsideRollUp.proof = RefLeftFold(outside, Len(outside))
               /\ Len(inside) = 1 => zkProof.insideRollUp = inside[1]
               /\ Len(outside) = 1 => zkProof.outsideRollUp = outside[1]
               /\ zkProof.proof.verified
                      = <<RefLeftFold(inside, Len(inside)),
                          RefLeftFold(outside, Len(outside))>>

\* A roll-up returned for one inside proof, used as it is, and two outside
\* proofs over different polygons, folded.
C15_Witness ==
    /\ drvLast.op = "combinePointInPolygonProofs"
    /\ drvLast.status = "returned"
    /\ Len(drvLast.arg[2][1]) = 1
    /\ Len(drvLast.arg[2][2]) = 2
    /\ drvLast.result[2].outsideRollUp.proof
           = ANDOutput(drvLast.arg[2][2][1].proof, drvLast.arg[2][2][2].proof)

\* C16: on each list the proofs stand in the order in which their inPolygon
\* invocations were made.
C16_ListsInInvocationOrder ==
    /\ \A i \in 1 .. Len(insidePolygonProofs), j \in 1 .. Len(insidePolygonProofs) :
           i < j => insidePolygonProofs[i].call < insidePolygonProofs[j].call
    /\ \A i \in 1 .. Len(outsidePolygonProofs), j \in 1 .. Len(outsidePolygonProofs) :
           i < j => outsidePolygonProofs[i].call < outsidePolygonProofs[j].call

\* C17: a call that throws has changed no field of the driver.
C17_FailedCallChangedNothing == drvLast.status = "threw" => ~drvLast.mutated

\* C20: combineProofs throws whenever two proofs of its list, at any two
\* positions, are over the same polygon commitment.
C20_DuplicatePolygonRejected ==
    (/\ drvLast.op = "combineProofs"
     /\ \E i \in 1 .. Len(drvLast.arg[2]), j \in 1 .. Len(drvLast.arg[2]) :
            /\ i < j
            /\ drvLast.arg[2][i].proof.polygonCommitment
                   = drvLast.arg[2][j].proof.polygonCommitment)
    => drvLast.status = "threw"

\* C18: proveCoordinatesIn3PointPolygon has no output for a point and a
\* triangle that verifyProoveCoordinatesIn3dPolygonArguments rejects: a
\* vertex of another factor than the point's, or a coordinate off its
\* domain.
C18_ArgumentsGateTheProof ==
    (/\ valPc = "done"
     /\ valOp = "proveCoordinatesIn3PointPolygon"
     /\ verifyProoveCoordinatesIn3dPolygonArguments(valPoint, valPolygon) = <<>>)
    => valOut = <<>>

\* The scales of 0 to 7 decimals.
Scales == { 1, 10, 100, 1000, 10000, 100000, 1000000, 10000000 }

\* |latitude| / 10^f <= 90, |longitude| / 10^f <= 180 and f <= 7, the stored
\* factor being 10^f.
InCoordinateDomain(p) ==
    /\ p.factor \in Scales
    /\ Abs(p.latitude) <= MaxLatitudeMagnitude * p.factor
    /\ Abs(p.longitude) <= MaxLongitudeMagnitude * p.factor

\* C19: assertIsValid accepts a point exactly when it is in the coordinate
\* domain.
C19_AcceptsExactlyTheDomain ==
    (valPc = "done" /\ valOp = "assertIsValid")
    => (valOut # <<>> <=> InCoordinateDomain(valPoint.point))

\* The edges of a polygon as the loop visits them: (vertices[i], vertices[j])
\* for (i, j) = (0, 2), (1, 0), (2, 1).
LoopEdges(polygon) ==
    << <<polygon.vertice1, polygon.vertice3>>,
       <<polygon.vertice2, polygon.vertice1>>,
       <<polygon.vertice3, polygon.vertice2>> >>

IsHorizontal(edge) == edge[1].longitude = edge[2].longitude

\* The ray cast over the first n edges of the loop, the horizontal ones left
\* out.
RECURSIVE RayCastLeavingOutHorizontal(_, _, _)
RayCastLeavingOutHorizontal(point, edges, n) ==
    IF n = 0
    THEN FALSE
    ELSE LET before == RayCastLeavingOutHorizontal(point, edges, n - 1)
         IN  IF IsHorizontal(edges[n])
             THEN before
             ELSE rayCastStep(before, point, edges[n][1], edges[n][2])

\* C21: for every edge of the loop whose endpoints have the same y, the
\* division is performed with denominator 1 and the iteration leaves the
\* accumulator as it is, whatever the query point; the result is that of the
\* ray cast without those edges, overridden by the edge-membership test.
C21_HorizontalEdgeNeverFlips ==
    /\ \A n \in 1 .. 3 :
           LET edge == LoopEdges(geoPolygon)[n]
           IN  IsHorizontal(edge)
               => /\ edgeDenominator(edge[1], edge[2]) = 1
                  /\ ~isIntersect(geoPoint, edge[1], edge[2])
                  /\ \A inside \in BOOLEAN :
                         rayCastStep(inside, geoPoint, edge[1], edge[2]) = inside
    /\ geoPc = "done"
       => geoInside = (\/ isPointLocatedOnEdge(geoPoint, geoPolygon)
                       \/ RayCastLeavingOutHorizontal(geoPoint, LoopEdges(geoPolygon), 3))

\* A triangle with a horizontal edge and another that is not, and a point
\* found inside it that is on none of its edges.
C21_Witness ==
    /\ geoPc = "done"
    /\ \E n \in 1 .. 3 : IsHorizontal(LoopEdges(geoPolygon)[n])
    /\ \E n \in 1 .. 3 : ~IsHorizontal(LoopEdges(geoPolygon)[n])
    /\ ~isPointLocatedOnEdge(geoPoint, geoPolygon)
    /\ geoInside = TRUE

\* The point is on one line with the three vertices of a degenerate
\* triangle.
IsCollinearWithVertices(p, polygon) ==
    /\ RefCross(polygon.vertice1, polygon.vertice2, p) = 0
    /\ RefCross(polygon.vertice2, polygon.vertice3, p) = 0
    /\ RefCross(polygon.vertice3, polygon.vertice1, p) = 0

\* C22: for a triangle whose three vertices are on one line,
\* isPointIn3PointPolygon answers false for every point that is not on
\* that line.
C22_DegenerateTriangleHoldsNoPoint ==
    (/\ geoPc = "done"
     /\ RefIsDegenerate(geoPolygon)
     /\ ~IsCollinearWithVertices(geoPoint.point, geoPolygon))
    => geoInside = FALSE

\* The step appends the proof to exactly one of the two lists.
ListsGrowBy(zkProof) ==
    \/ /\ insidePolygonProofs' = Append(insidePolygonProofs, zkProof)
       /\ outsidePolygonProofs' = outsidePolygonProofs
    \/ /\ outsidePolygonProofs' = Append(outsidePolygonProofs, zkProof)
       /\ insidePolygonProofs' = insidePolygonProofs

\* The list after is the list before with one proof appended.
OneAppended(before, after) ==
    /\ Len(after) = Len(before) + 1
    /\ SubSeq(after, 1, Len(before)) = before

\* C23: after every step, every proof on the inside list says inside and
\* every proof on the outside list says outside; a step that returns from
\* inPolygon has appended the returned proof to exactly one list, and the
\* lists change in no other way than by one such append; and every AND
\* that combinePointInPolygonProofs awaits joins two proofs of one polarity.
C23_ListsHoldTheirSide ==
    [][ /\ \A n \in 1 .. Len(insidePolygonProofs') : isInside(insidePolygonProofs'[n])
        /\ \A n \in 1 .. Len(outsidePolygonProofs') : ~isInside(outsidePolygonProofs'[n])
        /\ (/\ drvLast' # drvLast
            /\ drvLast'.op = "inPolygon"
            /\ drvLast'.status = "returned")
           => ListsGrowBy(drvLast'.result[2])
        /\ <<insidePolygonProofs, outsidePolygonProofs>>'
               # <<insidePolygonProofs, outsidePolygonProofs>>
           => \/ /\ OneAppended(insidePolygonProofs, insidePolygonProofs')
                 /\ outsidePolygonProofs' = outsidePolygonProofs
              \/ /\ OneAppended(outsidePolygonProofs, outsidePolygonProofs')
                 /\ insidePolygonProofs' = insidePolygonProofs
        /\ \A i \in 1 .. Len(drvPending') :
               (/\ drvPending'[i].op = "combinePointInPolygonProofs"
                /\ drvPending'[i].at \in { "firstAND", "nextAND" })
               => isInside(drvPending'[i].captured[1])
                      = isInside(drvPending'[i].captured[2]) ]_vars

\* Both lists hold a proof, the inside list two, and they were rolled up.
C23_Witness ==
    /\ Len(insidePolygonProofs) = 2
    /\ Len(outsidePolygonProofs) = 1
    /\ drvLast.op = "combinePointInPolygonProofs"
    /\ drvLast.status = "returned"

=============================================================================
